---- MODULE Spec2Model ----
(***************************************************************************)
(* A model of cronsim.py: the field grammar (Field.int, Field.parse), the  *)
(* expression compiler (CronSim.__init__) and the advancer (the advance_*  *)
(* stages and __next__).                                                   *)
(*                                                                         *)
(* Representation.  Python strings are TLA+ strings, read one character at *)
(* a time with SubSeq.  A Python set of a field holds integers and, for    *)
(* day-of-week, tuples (weekday, nth); TLC cannot hold both kinds in one   *)
(* set, so the tuple (d, n) is the negative integer NthSpec(d, n).  Every  *)
(* plain value of a set is >= 0 (it passed str.isdigit) and NthSpec is     *)
(* injective on 0..6 x 1..99, so membership and equality of sets are those *)
(* of the Python sets.  A raised exception is a record with ok = FALSE.    *)
(***************************************************************************)
EXTENDS Integers, Sequences, FiniteSets, TLC

(***************************************************************************)
(* Characters and strings                                                  *)
(***************************************************************************)
Char(s, i) == SubSeq(s, i, i)

DIGITS == "0123456789"
LOWER == "abcdefghijklmnopqrstuvwxyz"
UPPER == "ABCDEFGHIJKLMNOPQRSTUVWXYZ"

\* The position of character c in the alphabet a, 0 when it is absent.
IndexIn(a, c) ==
    IF \E i \in 1..Len(a) : Char(a, i) = c
    THEN CHOOSE i \in 1..Len(a) : Char(a, i) = c
    ELSE 0

\* c in s, for a one-character c.
Contains(s, c) == \E i \in 1..Len(s) : Char(s, i) = c

\* s.find(c) + 1: the first position of c in s, 0 when absent.
Find(s, c) ==
    IF Contains(s, c)
    THEN CHOOSE i \in 1..Len(s) :
            /\ Char(s, i) = c
            /\ \A j \in 1..(i - 1) : Char(s, j) # c
    ELSE 0

\* str.isdigit() on ASCII text: non-empty and every character a digit.
isdigit(s) == Len(s) > 0 /\ \A i \in 1..Len(s) : IndexIn(DIGITS, Char(s, i)) # 0

\* int(s) for a string of decimal digits.
RECURSIVE ToInt(_)
ToInt(s) ==
    IF Len(s) = 0 THEN 0
    ELSE 10 * ToInt(SubSeq(s, 1, Len(s) - 1)) + (IndexIn(DIGITS, Char(s, Len(s))) - 1)

\* str.upper() on ASCII text.
RECURSIVE upper(_)
upper(s) ==
    IF Len(s) = 0 THEN ""
    ELSE LET c == Char(s, 1)
             k == IndexIn(LOWER, c)
         IN  (IF k = 0 THEN c ELSE Char(UPPER, k)) \o upper(SubSeq(s, 2, Len(s)))

\* s.split(sep): the pieces of s between the occurrences of sep.
RECURSIVE split(_, _)
split(s, sep) ==
    LET i == Find(s, sep)
    IN  IF i = 0 THEN <<s>>
        ELSE <<SubSeq(s, 1, i - 1)>> \o split(SubSeq(s, i + 1, Len(s)), sep)

\* s.split(sep, maxsplit=1): at most two pieces, cut at the first sep.
split1(s, sep) ==
    LET i == Find(s, sep)
    IN  IF i = 0 THEN <<s>>
        ELSE <<SubSeq(s, 1, i - 1), SubSeq(s, i + 1, Len(s))>>

IsSpace(c) == c = " " \/ c = "\t"

\* s.split(): the maximal runs of non-whitespace characters of s.
RECURSIVE split_ws(_)
split_ws(s) ==
    IF Len(s) = 0 THEN <<>>
    ELSE IF IsSpace(Char(s, 1)) THEN split_ws(SubSeq(s, 2, Len(s)))
    ELSE LET stops == {i \in 1..Len(s) : IsSpace(Char(s, i))}
             e == IF stops = {} THEN Len(s) + 1
                  ELSE CHOOSE i \in stops : \A j \in stops : i <= j
         IN  <<SubSeq(s, 1, e - 1)>> \o split_ws(SubSeq(s, e, Len(s)))

(***************************************************************************)
(* Field grammar                                                           *)
(***************************************************************************)
MINUTE == 0
HOUR == 1
DAY == 2
MONTH == 3
DOW == 4
SECOND == 5

\* RANGES[f + 1] is the domain of field f.
RANGES == <<0..59, 0..23, 1..31, 1..12, 0..6, 0..59>>

SYMBOLIC_DAYS == <<"SUN", "MON", "TUE", "WED", "THU", "FRI", "SAT">>
SYMBOLIC_MONTHS == <<"JAN", "FEB", "MAR", "APR", "MAY", "JUN",
                     "JUL", "AUG", "SEP", "OCT", "NOV", "DEC">>

LAST == 1000

\* The tuple (d, nth) of a day-of-week set.
NthSpec(d, nth) == 0 - (100 * d + nth)

\* A returned value and a raised CronSimError.
Ok(v) == [ok |-> TRUE, val |-> v, msg |-> ""]
Raise(m) == [ok |-> FALSE, val |-> {}, msg |-> m]

\* list.index(x) + 1 for a tuple of strings, 0 when x is not in it.
IndexOf(names, x) ==
    IF \E i \in 1..Len(names) : names[i] = x
    THEN CHOOSE i \in 1..Len(names) : names[i] = x
    ELSE 0

Max(S) == CHOOSE x \in S : \A y \in S : y <= x
Min(S) == CHOOSE x \in S : \A y \in S : x <= y

\* sorted(S) for a set of integers.
RECURSIVE sorted(_)
sorted(S) == IF S = {} THEN <<>> ELSE <<Min(S)>> \o sorted(S \ {Min(S)})

\* items[::step] as a set.
Slice(items, step) == {items[i] : i \in {j \in 1..Len(items) : (j - 1) % step = 0}}

\* _int(value, min_value)
at_least(value, v, min_value) ==
    IF v < min_value THEN Raise("Bad value: " \o value) ELSE Ok(v)

int_(value, min_value) ==
    IF ~isdigit(value) \/ Len(value) > 2 THEN Raise("Bad value: " \o value)
    ELSE at_least(value, ToInt(value), min_value)

\* A faulty in_range that leaves out the domain check; C8 fails under it.
in_range_unchecked(self, s, v) == v

\* The domain check of Field.int, given v = _int(s).
in_range(self, s, v) ==
    IF ~v.ok THEN v
    ELSE IF v.val \notin RANGES[self + 1] THEN Raise("Bad value: " \o s)
    ELSE v

\* result.update(t) for the result r so far, when t did not raise.
merge(r, t) == IF ~t.ok THEN t ELSE Ok(r.val \cup t.val)

\* Field.int(self, s), given up = s.upper()
FieldIntOf(self, s, up) ==
    IF self = MONTH /\ IndexOf(SYMBOLIC_MONTHS, up) # 0
    THEN Ok(IndexOf(SYMBOLIC_MONTHS, up))
    ELSE IF self = DOW /\ IndexOf(SYMBOLIC_DAYS, up) # 0
    THEN Ok(IndexOf(SYMBOLIC_DAYS, up) - 1)
    ELSE in_range(self, s, int_(s, 0))

\* Field.int(self, s)
FieldInt(self, s) == FieldIntOf(self, s, upper(s))

\* The "#" branch of parse, given nth = _int(nth, min_value=1) and
\* d = self.int(term); nth is evaluated first.
nth_branch(nth, d) ==
    IF ~nth.ok THEN nth
    ELSE IF ~d.ok THEN d
    ELSE Ok({NthSpec(d.val, nth.val)})

\* range(start, end + 1) as a list.
range_list(start, end) == [i \in 1..(end - start + 1) |-> start + i - 1]

\* A faulty step_items that does not extend a single start value to the
\* maximum of the field; C10 fails under it.
step_items_no_extend(self, step, items) ==
    IF items = <<LAST>> THEN Ok({LAST}) ELSE Ok(Slice(items, step))

\* The "/" branch of parse after its two calls, given the sorted items.
step_items(self, step, items) ==
    IF items = <<LAST>> THEN Ok({LAST})
    ELSE IF Len(items) = 1
    THEN Ok(Slice(range_list(items[1], Max(RANGES[self + 1])), step))
    ELSE Ok(Slice(items, step))

\* The "/" branch of parse, given step = _int(step, min_value=1) and
\* term = self.parse(term); step is evaluated first.
step_branch(self, step, term) ==
    IF ~step.ok THEN step
    ELSE IF ~term.ok THEN term
    ELSE step_items(self, step.val, sorted(term.val))

\* A faulty range_branch that leaves out the end < start check; C7 fails
\* under it.
range_branch_unchecked(start, end) ==
    IF ~start.ok THEN start
    ELSE IF ~end.ok THEN end
    ELSE Ok(start.val..end.val)

\* The "-" branch of parse, given start = self.int(start) and
\* end = self.int(end); start is evaluated first.
range_branch(start, end) ==
    IF ~start.ok THEN start
    ELSE IF ~end.ok THEN end
    ELSE IF end.val < start.val
    THEN Raise("Range end cannot be smaller than start")
    ELSE Ok(start.val..end.val)

\* return {self.int(s)}
single(v) == IF ~v.ok THEN v ELSE Ok({v.val})

\* Field.parse(self, s)
RECURSIVE parse(_, _)
\* The "," branch of parse: result.update(parse(term)) over the terms in
\* order; the first term that raises ends the loop.
RECURSIVE update(_, _, _)
update(self, terms, r) ==
    IF ~r.ok THEN r
    ELSE IF Len(terms) = 0 THEN r
    ELSE update(self, Tail(terms), merge(r, parse(self, Head(terms))))

\* A faulty hash_split that reads nth with min_value=0; C16 fails under it.
hash_split_min_zero(self, p) == nth_branch(int_(p[2], 0), FieldInt(self, p[1]))

\* The pieces p of s.split(sep, maxsplit=1) handed to the branches.
hash_split(self, p) == nth_branch(int_(p[2], 1), FieldInt(self, p[1]))
slash_split(self, p) == step_branch(self, int_(p[2], 1), parse(self, p[1]))
dash_split(self, p) == range_branch(FieldInt(self, p[1]), FieldInt(self, p[2]))

parse(self, s) ==
    IF s = "*" THEN Ok(RANGES[self + 1])
    ELSE IF Contains(s, ",") THEN update(self, split(s, ","), Ok({}))
    ELSE IF Contains(s, "#") /\ self = DOW THEN hash_split(self, split1(s, "#"))
    ELSE IF Contains(s, "/") THEN slash_split(self, split1(s, "/"))
    ELSE IF Contains(s, "-") THEN dash_split(self, split1(s, "-"))
    ELSE IF self = DAY /\ (s = "L" \/ s = "l") THEN Ok({LAST})
    ELSE single(FieldInt(self, s))

\* A raised CronSimError of CronSim.__init__: no instance.
Failed(m) ==
    [ok |-> FALSE, msg |-> m, minutes |-> {}, hours |-> {}, days |-> {},
     months |-> {}, weekdays |-> {}, seconds |-> {}]

\* A faulty first rule that does not look at the weekday set; C9 fails under it.
rule_days_always(d, w) == IF d = RANGES[DAY + 1] THEN {} ELSE d

\* The first rule at the end of __init__.
rule_days(d, w) == IF d = RANGES[DAY + 1] /\ w # RANGES[DOW + 1] THEN {} ELSE d

\* A faulty second rule that does not look at the weekday set; C20 fails under
\* it.
rule_weekdays_always(d, w) == IF d # RANGES[DAY + 1] THEN {} ELSE w

\* The second rule at the end of __init__; d is the day set the first rule left.
rule_weekdays(d, w) == IF w = RANGES[DOW + 1] /\ d # RANGES[DAY + 1] THEN {} ELSE w

\* parts = expr.split(), with "0" appended to five parts.
parts_of(parts) == IF Len(parts) = 5 THEN Append(parts, "0") ELSE parts

\* The six parse calls of __init__ in their order (the first that raises ends
\* __init__), then the two rules.
fields(mi, ho, da, mo, wd, se) ==
    IF ~mi.ok THEN Failed(mi.msg)
    ELSE IF ~ho.ok THEN Failed(ho.msg)
    ELSE IF ~da.ok THEN Failed(da.msg)
    ELSE IF ~mo.ok THEN Failed(mo.msg)
    ELSE IF ~wd.ok THEN Failed(wd.msg)
    ELSE IF ~se.ok THEN Failed(se.msg)
    ELSE [ok |-> TRUE, msg |-> "", minutes |-> mi.val, hours |-> ho.val,
          days |-> rule_days(da.val, wd.val), months |-> mo.val,
          weekdays |-> rule_weekdays(rule_days(da.val, wd.val), wd.val),
          seconds |-> se.val]

\* A faulty compile_parts that rejects only fewer than six parts; C6 fails
\* under it.
compile_parts_at_least(parts) ==
    IF Len(parts) < 6 THEN Failed("Wrong number of fields")
    ELSE fields(parse(MINUTE, parts[1]), parse(HOUR, parts[2]),
                parse(DAY, parts[3]), parse(MONTH, parts[4]),
                parse(DOW, parts[5]), parse(SECOND, parts[6]))

compile_parts(parts) ==
    IF Len(parts) # 6 THEN Failed("Wrong number of fields")
    ELSE fields(parse(MINUTE, parts[1]), parse(HOUR, parts[2]),
                parse(DAY, parts[3]), parse(MONTH, parts[4]),
                parse(DOW, parts[5]), parse(SECOND, parts[6]))

\* CronSim.__init__, the part after self.dt: the compiled sets, or the error.
compile(e) == compile_parts(parts_of(split_ws(e)))

(***************************************************************************)
(* Calendar: datetime.date, datetime.datetime, timedelta, calendar         *)
(***************************************************************************)
\* The last year a date can hold (datetime.MAXYEAR, brought near the start
\* instants so that a scan that never matches ends in its OverflowError).
MAXYEAR == 2024

IsLeap(y) == y % 4 = 0 /\ (y % 100 # 0 \/ y % 400 = 0)

\* calendar.monthrange(y, m)[1]
monthrange(y, m) ==
    IF m = 2 THEN (IF IsLeap(y) THEN 29 ELSE 28)
    ELSE IF m \in {4, 6, 9, 11} THEN 30 ELSE 31

RECURSIVE DaysBeforeMonth(_, _)
DaysBeforeMonth(y, m) ==
    IF m = 1 THEN 0 ELSE DaysBeforeMonth(y, m - 1) + monthrange(y, m - 1)

\* date.toordinal()
toordinal(d) ==
    LET y == d.year - 1
    IN  y * 365 + (y \div 4) - (y \div 100) + (y \div 400)
        + DaysBeforeMonth(d.year, d.month) + d.day

\* date.weekday(): Monday is 0.
weekday(d) == (toordinal(d) + 6) % 7

NoDate == [year |-> 0, month |-> 0, day |-> 0]

\* d + td(days=1); OverflowError past the last day of MAXYEAR.
AddDay(d) ==
    IF d.day < monthrange(d.year, d.month)
    THEN [ok |-> TRUE, val |-> [d EXCEPT !.day = d.day + 1]]
    ELSE IF d.month < 12
    THEN [ok |-> TRUE, val |-> [d EXCEPT !.month = d.month + 1, !.day = 1]]
    ELSE IF d.year < MAXYEAR
    THEN [ok |-> TRUE, val |-> [year |-> d.year + 1, month |-> 1, day |-> 1]]
    ELSE [ok |-> FALSE, val |-> NoDate]

\* self.dt.date()
date(t) == [year |-> t.year, month |-> t.month, day |-> t.day]

\* A faulty combine that builds a naive instant; C12 fails under it.
combine_naive(d, tz) ==
    [year |-> d.year, month |-> d.month, day |-> d.day, hour |-> 0,
     minute |-> 0, second |-> 0, microsecond |-> 0, tzinfo |-> "None"]

\* datetime.combine(needle, time(), tzinfo)
combine(d, tz) ==
    [year |-> d.year, month |-> d.month, day |-> d.day, hour |-> 0,
     minute |-> 0, second |-> 0, microsecond |-> 0, tzinfo |-> tz]

\* t + td(seconds=n) for 0 <= n <= 86400: the wall-clock fields carry into
\* the date, the microsecond and the tzinfo are kept.
AddSeconds(t, n) ==
    LET total == t.hour * 3600 + t.minute * 60 + t.second + n
        secs == total % 86400
        d == IF total >= 86400 THEN AddDay(date(t))
             ELSE [ok |-> TRUE, val |-> date(t)]
    IN  [ok |-> d.ok,
         val |-> [year |-> d.val.year, month |-> d.val.month, day |-> d.val.day,
                  hour |-> secs \div 3600, minute |-> (secs % 3600) \div 60,
                  second |-> secs % 60, microsecond |-> t.microsecond,
                  tzinfo |-> t.tzinfo]]

\* a < b for two instants of one tzinfo.
Tuple(t) == <<t.year, t.month, t.day, t.hour, t.minute, t.second, t.microsecond>>
RECURSIVE LexLess(_, _)
LexLess(a, b) ==
    IF Len(a) = 0 THEN FALSE
    ELSE Head(a) < Head(b) \/ (Head(a) = Head(b) /\ LexLess(Tail(a), Tail(b)))
Earlier(a, b) == LexLess(Tuple(a), Tuple(b))

(***************************************************************************)
(* Inputs                                                                  *)
(***************************************************************************)
\* The number of next() calls made on one instance.
MaxCalls == 3

\* The expressions handed to CronSim(expr, dt).
ValidExprs ==
    {"* * * * *", "* * * * * *", "1 1 L * *", "*/15 * * * *", "5/15 * * * *",
     "0-10/2 * * * *", "* * * * 1", "* * 1 * *", "0 0 31 * *", "* * 30 2 *",
     "0 0 31 2 *", "* * * * 1#6", "0 0 * * 1#2", "0 12 13 * FRI",
     "30 5 1 6 *", "0 0 L 2 *", "* * * * * 10,40", "59 23 * * * 59",
     "*/20 8-17/3 * JAN-mar mon-FRI", "0 0 * * 0", "0 9 1-31 * sat",
     "0 0 5/10 * 0-6", "  15 10\t* *  * ", "0 0 L/2 * 3#1,5", "45 23 31 12 *",
     "0 0 29 2 0", "0 6 1,15 * 1-5 30", "* * L * *",
     "0 0 1 6 *"}

InvalidExprs ==
    {"", "*", "* * * *", "* * * * * * *", "5-3 * * * *", "* 1,5-3 * * *",
     "* * 9-2/2 * *", "* * * * SAT-SUN", "1#2 * * * *", "* * 1#2 * *",
     "* 1,2#1 * * *", "* * * 3#1/2 *", "L * * * *", "* * * L *", "* * * * l",
     "* L/2 * * *", "1,L * * * *", "60 * * * *", "* 24 * * *", "* * 0 * *",
     "* * 32 * *", "* * * 13 *", "* * * * 7", "* * * * * 60", "0-60 * * * *",
     "* * 0/5 * *", "*/0 * * * *", "*/100 * * * *", "* * * * 1#0",
     "* * * * 1#2/3", "* * * * 1#100", "1,,2 * * * *", "* * * * * 5-3"}

\* The expression whose field i (1..6 in the order of the text) is tok and
\* whose other fields are "*"; five fields unless i = 6.
Place(i, tok) ==
    LET f(k) == IF k = i THEN tok ELSE "*"
    IN  f(1) \o " " \o f(2) \o " " \o f(3) \o " " \o f(4) \o " " \o f(5)
        \o (IF i = 6 THEN " " \o tok ELSE "")

\* A term alone, as an element of a comma list and as the base of a step.
Wraps(term) == {term, "1," \o term, term \o ",1", term \o "/2"}

\* Position i of the text holds field FieldAt[i].
FieldAt == <<MINUTE, HOUR, DAY, MONTH, DOW, SECOND>>

\* Expressions with a range whose end is smaller than its start, a "#" term
\* outside day-of-week, or an "L"/"l" term outside day-of-month.
BadRangeExprs == {Place(i, w) : i \in 1..6, w \in Wraps("5-3")}
BadHashExprs == {Place(i, w) : i \in {j \in 1..6 : FieldAt[j] # DOW}, w \in Wraps("1#2")}
BadLastExprs ==
    {Place(i, w) : i \in {j \in 1..6 : FieldAt[j] # DAY}, w \in Wraps("L") \cup Wraps("l")}
OffendingExprs == BadRangeExprs \cup BadHashExprs \cup BadLastExprs

\* Expressions with a bare value, a range end or a step start outside the
\* domain of its field.
OutOfDomainExprs ==
    {"60 * * * *", "* 24 * * *", "* * 0 * *", "* * 32 * *", "* * * 13 *",
     "* * * * 7", "* * * * * 60", "0-60 * * * *", "* * 0/5 * *"}

\* Expressions whose day-of-week field is a "#" term, well-formed or not.
HashExprs ==
    {Place(5, t) : t \in {"FRI#1", "sun#05", "0#99,1", "01#2", "1#", "1#x", "#1",
                          "7#1", "1#00", "1#-1", "1#1#1", "1-2#1", "1#007"}}

Exprs ==
    ValidExprs \cup InvalidExprs \cup OffendingExprs \cup OutOfDomainExprs
        \cup HashExprs

Instant(y, mo, d, h, mi, s, us, tz) ==
    [year |-> y, month |-> mo, day |-> d, hour |-> h, minute |-> mi,
     second |-> s, microsecond |-> us, tzinfo |-> tz]

\* The start instants handed to CronSim(expr, dt).
Starts ==
    {Instant(2020, 1, 1, 0, 0, 0, 0, "None"),
     Instant(2020, 1, 1, 0, 0, 30, 500000, "None"),
     Instant(2020, 2, 28, 23, 59, 59, 0, "UTC+01:00"),
     Instant(2020, 12, 31, 23, 59, 0, 0, "None"),
     Instant(2021, 1, 31, 12, 30, 45, 250000, "UTC+01:00")}

(***************************************************************************)
(* State                                                                   *)
(***************************************************************************)
VARIABLES
    expr,       \* the expression handed to the constructor
    start,      \* the start instant handed to the constructor
    error,      \* the message of the exception raised, "" when none
    minutes, hours, days, months, weekdays, seconds,   \* the compiled sets
    dt,         \* self.dt, the cursor
    pc,         \* where the caller or __next__ stands
    needle,     \* the local needle of advance_month and advance_day
    before,     \* self.dt on entry to the __next__ in progress
    results     \* the instants __next__ has returned, in order

vars == <<expr, start, error, minutes, hours, days, months, weekdays, seconds,
          dt, pc, needle, before, results>>

sets == <<minutes, hours, days, months, weekdays, seconds>>

\* The attributes __init__ leaves, given c = compile(expr).
constructed(c) ==
    /\ error = c.msg
    /\ pc = IF c.ok THEN "ready" ELSE "failed"
    /\ minutes = c.minutes
    /\ hours = c.hours
    /\ days = c.days
    /\ months = c.months
    /\ weekdays = c.weekdays
    /\ seconds = c.seconds

\* CronSim.__init__(expr, dt)
Init ==
    /\ expr \in Exprs
    /\ start \in Starts
    /\ dt = [start EXCEPT !.second = 0, !.microsecond = 0]
    /\ constructed(compile(expr))
    /\ needle = NoDate
    /\ before = dt
    /\ results = <<>>

(***************************************************************************)
(* Advancer                                                                *)
(***************************************************************************)
\* An OverflowError of the date arithmetic leaves __next__.
Overflow ==
    /\ pc' = "raised"
    /\ error' = "OverflowError: date value out of range"
    /\ needle' = NoDate

\* A faulty match_day that takes Monday for weekday 0; C17 fails under it.
match_day_monday_zero(d) ==
    LET dow == weekday(d)
        idx == (d.day + 6) \div 7
    IN  \/ d.day \in days
        \/ LAST \in days /\ d.day = monthrange(d.year, d.month)
        \/ dow \in weekdays \/ (dow % 7) \in weekdays
        \/ NthSpec(dow, idx) \in weekdays \/ NthSpec(dow % 7, idx) \in weekdays

\* A faulty match_day that takes the 31st for the last day of every month;
\* C11 fails under it.
match_day_last_31(d) ==
    LET dow == weekday(d) + 1
        idx == (d.day + 6) \div 7
    IN  \/ d.day \in days
        \/ LAST \in days /\ d.day = 31
        \/ dow \in weekdays \/ (dow % 7) \in weekdays
        \/ NthSpec(dow, idx) \in weekdays \/ NthSpec(dow % 7, idx) \in weekdays

\* CronSim.match_day(self, d)
match_day(d) ==
    LET dow == weekday(d) + 1
        idx == (d.day + 6) \div 7
    IN  \/ d.day \in days
        \/ LAST \in days /\ d.day = monthrange(d.year, d.month)
        \/ dow \in weekdays \/ (dow % 7) \in weekdays
        \/ NthSpec(dow, idx) \in weekdays \/ NthSpec(dow % 7, idx) \in weekdays

\* A faulty delta that takes the farthest value of the set; C4 fails under it.
delta_farthest(S, cur, size) == Max({(v - cur) % size : v \in S})

\* The forward distance of the stages: min((v - cur) % size for v in S).
delta(S, cur, size) == Min({(v - cur) % size : v \in S})

\* A faulty next_begin that leaves out the one-second step; C1 fails under it.
next_begin_no_step ==
    /\ pc = "ready"
    /\ Len(results) < MaxCalls
    /\ before' = dt
    /\ pc' = "advance_month"
    /\ UNCHANGED <<expr, start, error, sets, dt, needle, results>>

\* __next__, up to the loop: self.dt += td(seconds=1)
next_begin ==
    /\ pc = "ready"
    /\ Len(results) < MaxCalls
    /\ before' = dt
    /\ LET t == AddSeconds(dt, 1)
       IN  IF t.ok
           THEN /\ dt' = t.val
                /\ pc' = "advance_month"
                /\ UNCHANGED <<error, needle>>
           ELSE Overflow /\ UNCHANGED dt
    /\ UNCHANGED <<expr, start, sets, results>>

\* advance_month, up to its loop
advance_month ==
    /\ pc = "advance_month"
    /\ IF dt.month \in months
       THEN pc' = "advance_day" /\ UNCHANGED needle
       ELSE pc' = "month_loop" /\ needle' = date(dt)
    /\ UNCHANGED <<expr, start, error, sets, dt, before, results>>

\* One turn of the loop of advance_month: needle += td(days=1)
month_scan ==
    /\ pc = "month_loop"
    /\ needle.month \notin months
    /\ LET n == AddDay(needle)
       IN  IF n.ok
           THEN needle' = n.val /\ UNCHANGED <<pc, error>>
           ELSE Overflow
    /\ UNCHANGED <<expr, start, sets, dt, before, results>>

\* The end of advance_month: self.dt = combine(needle, time(), tzinfo)
month_set ==
    /\ pc = "month_loop"
    /\ needle.month \in months
    /\ dt' = combine(needle, dt.tzinfo)
    /\ needle' = NoDate
    /\ pc' = "advance_day"
    /\ UNCHANGED <<expr, start, error, sets, before, results>>

\* advance_day, up to its loop; False sends __next__ on to advance_hour
advance_day ==
    /\ pc = "advance_day"
    /\ IF match_day(date(dt))
       THEN pc' = "advance_hour" /\ UNCHANGED needle
       ELSE pc' = "day_loop" /\ needle' = date(dt)
    /\ UNCHANGED <<expr, start, error, sets, dt, before, results>>

\* One turn of the loop of advance_day: needle += td(days=1)
day_scan ==
    /\ pc = "day_loop"
    /\ ~match_day(needle)
    /\ LET n == AddDay(needle)
       IN  IF n.ok
           THEN needle' = n.val /\ UNCHANGED <<pc, error>>
           ELSE Overflow
    /\ UNCHANGED <<expr, start, sets, dt, before, results>>

\* A faulty end of advance_day after which __next__ goes on to advance_hour
\* instead of starting the pass again; C14 fails under it.
day_set_no_restart ==
    /\ pc = "day_loop"
    /\ match_day(needle)
    /\ dt' = combine(needle, dt.tzinfo)
    /\ needle' = NoDate
    /\ pc' = "advance_hour"
    /\ UNCHANGED <<expr, start, error, sets, before, results>>

\* The end of advance_day: True, and __next__ continues with advance_month
day_set ==
    /\ pc = "day_loop"
    /\ match_day(needle)
    /\ dt' = combine(needle, dt.tzinfo)
    /\ needle' = NoDate
    /\ pc' = "advance_month"
    /\ UNCHANGED <<expr, start, error, sets, before, results>>

\* A faulty hour_jump that leaves out the replace of minute and second; C15
\* fails under it.
hour_jump_no_replace(t) == AddSeconds(t, 3600 * delta(hours, t.hour, 24))

\* The cursor of advance_hour after self.dt += td(hours=delta) and the
\* replace of minute and second.
hour_jump(t) ==
    LET j == AddSeconds(t, 3600 * delta(hours, t.hour, 24))
    IN  [ok |-> j.ok,
         val |-> [j.val EXCEPT !.minute = Min(minutes), !.second = Min(seconds)]]

advance_hour ==
    /\ pc = "advance_hour"
    /\ IF dt.hour \in hours
       THEN pc' = "advance_minute" /\ UNCHANGED <<dt, error, needle>>
       ELSE LET t == hour_jump(dt)
            IN  IF t.ok
                THEN dt' = t.val /\ pc' = "advance_month" /\ UNCHANGED <<error, needle>>
                ELSE Overflow /\ UNCHANGED dt
    /\ UNCHANGED <<expr, start, sets, before, results>>

\* The cursor of advance_minute after self.dt += td(minutes=delta) and the
\* replace of second.
minute_jump(t) ==
    LET j == AddSeconds(t, 60 * delta(minutes, t.minute, 60))
    IN  [ok |-> j.ok, val |-> [j.val EXCEPT !.second = Min(seconds)]]

advance_minute ==
    /\ pc = "advance_minute"
    /\ IF dt.minute \in minutes
       THEN pc' = "advance_second" /\ UNCHANGED <<dt, error, needle>>
       ELSE LET t == minute_jump(dt)
            IN  IF t.ok
                THEN dt' = t.val /\ pc' = "advance_month" /\ UNCHANGED <<error, needle>>
                ELSE Overflow /\ UNCHANGED dt
    /\ UNCHANGED <<expr, start, sets, before, results>>

\* The cursor of advance_second after self.dt += td(seconds=delta).
second_jump(t) == AddSeconds(t, delta(seconds, t.second, 60))

\* A faulty advance_second after which __next__ returns at once instead of
\* running the stages again; C2 fails under it.
advance_second_no_restart ==
    /\ pc = "advance_second"
    /\ pc' = "return"
    /\ dt' = IF dt.second \in seconds \/ ~second_jump(dt).ok THEN dt
             ELSE second_jump(dt).val
    /\ UNCHANGED <<expr, start, error, sets, needle, before, results>>

advance_second ==
    /\ pc = "advance_second"
    /\ IF dt.second \in seconds
       THEN pc' = "return" /\ UNCHANGED <<dt, error, needle>>
       ELSE LET t == second_jump(dt)
            IN  IF t.ok
                THEN dt' = t.val /\ pc' = "advance_month" /\ UNCHANGED <<error, needle>>
                ELSE Overflow /\ UNCHANGED dt
    /\ UNCHANGED <<expr, start, sets, before, results>>

\* A faulty return that adds the day of the result to the day set; C19 fails
\* under it.
next_return_adds_day ==
    /\ pc = "return"
    /\ results' = Append(results, dt)
    /\ pc' = "ready"
    /\ days' = days \cup {dt.day}
    /\ UNCHANGED <<expr, start, error, minutes, hours, months, weekdays, seconds,
                   dt, needle, before>>

\* return self.dt
next_return ==
    /\ pc = "return"
    /\ results' = Append(results, dt)
    /\ pc' = "ready"
    /\ UNCHANGED <<expr, start, error, sets, dt, needle, before>>

Next ==
    \/ next_begin
    \/ advance_month
    \/ month_scan
    \/ month_set
    \/ advance_day
    \/ day_scan
    \/ day_set
    \/ advance_hour
    \/ advance_minute
    \/ advance_second
    \/ next_return

Spec == Init /\ [][Next]_vars

(***************************************************************************)
(* Properties                                                              *)
(***************************************************************************)
\* The instant __next__ returned last.
LastResult == results[Len(results)]

\* The five stage predicates on an instant, against the compiled sets.
Satisfies(t) ==
    /\ t.month \in months
    /\ match_day(date(t))
    /\ t.hour \in hours
    /\ t.minute \in minutes
    /\ t.second \in seconds

\* C1: in the sequence of instants returned by one instance, each instant is
\* strictly later than the one before it, by at least one whole second.
C1_Monotonic ==
    \A i \in 1..(Len(results) - 1) :
        /\ Earlier(results[i], results[i + 1])
        /\ AddSeconds(results[i], 1).ok
            => ~Earlier(results[i + 1], AddSeconds(results[i], 1).val)

\* Three results, the second exactly one second after the first.
C1_Witness ==
    /\ Len(results) = 3
    /\ results[2] = AddSeconds(results[1], 1).val
    /\ results[3] # results[2]

\* C2: every returned instant satisfies the month, day, hour, minute and
\* second predicates together, re-evaluated against the compiled sets.
C2_Consistent == \A i \in 1..Len(results) : Satisfies(results[i])

\* An instant returned for an nth-weekday expression, past a day scan.
C2_Witness ==
    /\ expr = "0 0 * * 1#2"
    /\ Len(results) = 2
    /\ days = {}

\* C3: every call of next() on a compiled expression returns an instant; none
\* ends in an error.
C3_NextReturns == pc # "raised"

\* Calendar dates from a to b, both included.
DateTuple(d) == <<d.year, d.month, d.day>>
DatesFromTo(a, b) ==
    {d \in [year : a.year..b.year, month : 1..12, day : 1..31] :
        /\ d.day <= monthrange(d.year, d.month)
        /\ ~LexLess(DateTuple(d), DateTuple(a))
        /\ ~LexLess(DateTuple(b), DateTuple(d))}

\* No whole-second instant strictly between a and r satisfies the expression.
NoneBetween(a, r) ==
    \A d \in DatesFromTo(date(a), date(r)) :
        (d.month \in months /\ match_day(d)) =>
            \A h \in hours : \A m \in minutes : \A sec \in seconds :
                ~ /\ Earlier(a, Instant(d.year, d.month, d.day, h, m, sec, 0, a.tzinfo))
                  /\ Earlier(Instant(d.year, d.month, d.day, h, m, sec, 0, a.tzinfo), r)

\* C4: a call returns the earliest whole-second instant that is strictly later
\* than the cursor before the call and satisfies the expression.
C4_Earliest ==
    (pc = "ready" /\ Len(results) > 0) =>
        /\ Earlier(before, LastResult)
        /\ Satisfies(LastResult)
        /\ NoneBetween(before, LastResult)

\* A call whose stages carried the cursor into a later month.
C4_Witness ==
    /\ pc = "ready"
    /\ Len(results) > 0
    /\ LastResult.month # before.month
    /\ LastResult.hour # 0

\* C5: the first instant returned is strictly later than the start instant,
\* and the cursor built from the start instant (the cursor on entry to the
\* first call) drops only its sub-second part.
C5_FirstAfterStart ==
    (pc = "ready" /\ Len(results) = 1) =>
        /\ Earlier(start, results[1])
        /\ before = [start EXCEPT !.microsecond = 0]

\* The number of whitespace-separated fields of a text: the positions where a
\* run of non-whitespace characters begins.
NumFields(e) ==
    Cardinality({i \in 1..Len(e) :
        ~IsSpace(Char(e, i)) /\ (i = 1 \/ IsSpace(Char(e, i - 1)))})

Compiled == pc # "failed"
NoSets ==
    /\ minutes = {} /\ hours = {} /\ days = {}
    /\ months = {} /\ weekdays = {} /\ seconds = {}

\* The fields of every text, in their order.
Parts == [e \in Exprs |-> split_ws(e)]

\* The fields of the text, in their order.
Part(i) == Parts[expr][i]

\* C6: compilation succeeds only for exactly 5 or 6 fields, any other count
\* fails with the wrong-field-count error and leaves no compiled sets; with 5
\* fields the second set is {0}, with 6 the sixth field is the second field;
\* the first five fields are minute, hour, day-of-month, month, day-of-week.
C6_FieldCount ==
    /\ Compiled => NumFields(expr) \in {5, 6}
    /\ NumFields(expr) \notin {5, 6} =>
        ~Compiled /\ error = "Wrong number of fields" /\ NoSets
    /\ (Compiled /\ NumFields(expr) = 5) => seconds = {0}
    /\ (Compiled /\ NumFields(expr) = 6) => seconds = parse(SECOND, Part(6)).val
    /\ Compiled =>
        /\ minutes = parse(MINUTE, Part(1)).val
        /\ hours = parse(HOUR, Part(2)).val
        /\ days \in {parse(DAY, Part(3)).val, {}}
        /\ months = parse(MONTH, Part(4)).val
        /\ weekdays \in {parse(DOW, Part(5)).val, {}}

\* A text of seven fields, rejected for its field count.
C6_Witness ==
    /\ NumFields(expr) = 7
    /\ pc = "failed"
    /\ error = "Wrong number of fields"

\* C7: compilation fails, leaving no compiled sets, when a field holds a range
\* with end < start, a "#" term outside day-of-week or an "L"/"l" term outside
\* day-of-month, alone, in a comma list or as the base of a step.
C7_Rejected == expr \in OffendingExprs => (~Compiled /\ error # "" /\ NoSets)

\* A reversed range as an element of a comma list, rejected.
C7_Witness ==
    /\ expr = Place(2, "1,5-3")
    /\ pc = "failed"
    /\ error = "Range end cannot be smaller than start"

\* The tuples (weekday, nth) a day-of-week set may hold.
NthSpecs == {NthSpec(d, n) : d \in RANGES[DOW + 1], n \in 1..99}

ParsedDays == parse(DAY, Part(3)).val
ParsedWeekdays == parse(DOW, Part(5)).val

\* C9: after compilation, an unrestricted day set beside a restricted weekday
\* set is emptied and the weekday set kept; an unrestricted weekday set beside a
\* restricted day set is emptied and the day set kept; otherwise both are as
\* parsed.
C9_Disjunction ==
    /\ Compiled =>
        /\ (ParsedDays = 1..31 /\ ParsedWeekdays # 0..6)
            => (days = {} /\ weekdays = ParsedWeekdays)
        /\ (ParsedWeekdays = 0..6 /\ ParsedDays # 1..31)
            => (weekdays = {} /\ days = ParsedDays)
        /\ ((ParsedDays = 1..31) <=> (ParsedWeekdays = 0..6))
            => (days = ParsedDays /\ weekdays = ParsedWeekdays)
    /\ expr = "* * * * 1" => (Compiled /\ days = {} /\ weekdays = {1})
    /\ expr = "* * 1 * *" => (Compiled /\ days = {1} /\ weekdays = {})

\* The day set written as the range 1-31 beside a weekday: emptied.
C9_Witness ==
    /\ expr = "0 9 1-31 * sat"
    /\ Compiled
    /\ days = {}
    /\ weekdays = {6}

\* The set the step rule describes for the values S of the term in field f.
StepExpected(f, S, step) ==
    IF S = {LAST} THEN S
    ELSE IF Cardinality(S) = 1
    THEN {v \in Min(S)..Max(RANGES[f + 1]) : (v - Min(S)) % step = 0}
    ELSE {v \in S : Cardinality({u \in S : u < v}) % step = 0}

\* The step rule on one token "term/step" of field f whose step is an integer
\* >= 1 and whose term parses.
StepRuleOn(f, tok) ==
    LET p == split1(tok, "/")
    IN  (isdigit(p[2]) /\ ToInt(p[2]) >= 1 /\ parse(f, p[1]).ok) =>
            /\ parse(f, tok).ok
            /\ parse(f, tok).val = StepExpected(f, parse(f, p[1]).val, ToInt(p[2]))

\* The comma-separated tokens with a "/" of field position i of the text.
StepTokens(i) ==
    LET ts == split(Part(i), ",")
    IN  {ts[k] : k \in {j \in 1..Len(ts) : Contains(ts[j], "/")}}

StepExamples ==
    /\ expr = "*/15 * * * *" => minutes = {0, 15, 30, 45}
    /\ expr = "5/15 * * * *" => minutes = {5, 20, 35, 50}
    /\ expr = "0-10/2 * * * *" => minutes = {0, 2, 4, 6, 8, 10}
    /\ expr = "*/0 * * * *" => ~Compiled

\* C10 as stated: every token "term/step" with step >= 1, in any field, yields
\* the set of the step rule.
C10_StepAsStated ==
    /\ StepExamples
    /\ NumFields(expr) \in {5, 6} =>
        \A i \in 1..NumFields(expr) : \A tok \in StepTokens(i) :
            StepRuleOn(FieldAt[i], tok)

\* C10, amended: the same for a step of one or two digits, on a token that is
\* not a "#" term of day-of-week.
C10_Step ==
    /\ StepExamples
    /\ NumFields(expr) \in {5, 6} =>
        \A i \in 1..NumFields(expr) : \A tok \in StepTokens(i) :
            (/\ Len(split1(tok, "/")[2]) <= 2
             /\ ~(FieldAt[i] = DOW /\ Contains(tok, "#")))
                => StepRuleOn(FieldAt[i], tok)

\* A single start value extended to the maximum of the field.
C10_Witness ==
    /\ expr = "5/15 * * * *"
    /\ Compiled
    /\ minutes = {5, 20, 35, 50}

\* The expression has "L" (or "l") as its day-of-month field and "*" as its
\* day-of-week field.
LastDayExpr == Compiled /\ Part(3) \in {"L", "l"} /\ Part(5) = "*"

\* No instant strictly between a and r lies on the last day of a month of the
\* month set at an hour, minute and second of the sets.
NoMonthEndBetween(a, r) ==
    \A d \in DatesFromTo(date(a), date(r)) :
        (d.month \in months /\ d.day = monthrange(d.year, d.month)) =>
            \A h \in hours : \A m \in minutes : \A sec \in seconds :
                ~ /\ Earlier(a, Instant(d.year, d.month, d.day, h, m, sec, 0, a.tzinfo))
                  /\ Earlier(Instant(d.year, d.month, d.day, h, m, sec, 0, a.tzinfo), r)

\* C11: with day-of-month "L" and day-of-week "*", every returned instant is
\* on the last calendar day of its month (28, 29 in a leap year, 30 or 31), no
\* month-end at or after the cursor is skipped, and "1 1 L * *" from
\* 2020-01-01T00:00:00 returns 2020-01-31T01:01:00 first.
C11_LastDay ==
    /\ LastDayExpr =>
        /\ \A i \in 1..Len(results) :
            results[i].day = monthrange(results[i].year, results[i].month)
        /\ (pc = "ready" /\ Len(results) > 0) => NoMonthEndBetween(before, LastResult)
    /\ (/\ expr = "1 1 L * *"
        /\ start = Instant(2020, 1, 1, 0, 0, 0, 0, "None")
        /\ Len(results) > 0)
            => results[1] = Instant(2020, 1, 31, 1, 1, 0, 0, "None")

\* The end of January, then the 29th of February of a leap year.
C11_Witness ==
    /\ expr = "1 1 L * *"
    /\ Len(results) = 2
    /\ results[1] = Instant(2020, 1, 31, 1, 1, 0, 0, "None")
    /\ results[2] = Instant(2020, 2, 29, 1, 1, 0, 0, "None")

\* The wall-clock fields of an instant.
Wall(t) == <<t.year, t.month, t.day, t.hour, t.minute, t.second, t.microsecond>>

\* The tzinfo values of the start instants.
Tzinfos == {t.tzinfo : t \in Starts}

\* The arithmetic of the stages gives the same wall-clock fields whatever the
\* tzinfo of the cursor t.
TzBlind(t) ==
    \A tz \in Tzinfos :
        LET u == [t EXCEPT !.tzinfo = tz]
        IN  /\ Wall(AddSeconds(u, 1).val) = Wall(AddSeconds(t, 1).val)
            /\ Wall(hour_jump(u).val) = Wall(hour_jump(t).val)
            /\ Wall(minute_jump(u).val) = Wall(minute_jump(t).val)
            /\ Wall(second_jump(u).val) = Wall(second_jump(t).val)
            /\ Wall(combine(date(u), tz)) = Wall(combine(date(t), t.tzinfo))

\* C12: the tzinfo of the start instant, present or absent, is the tzinfo of
\* the cursor and of every returned instant, and no stage reads it to adjust
\* the wall-clock fields.
C12_TzCarried ==
    /\ dt.tzinfo = start.tzinfo
    /\ \A i \in 1..Len(results) : results[i].tzinfo = start.tzinfo
    /\ Compiled => TzBlind(dt)

\* An aware start instant whose first result the day stage rebuilt at
\* midnight of a later date.
C12_Witness ==
    /\ expr = "0 0 31 * *"
    /\ start.tzinfo = "UTC+01:00"
    /\ Len(results) > 0
    /\ date(results[1]) # date(start)
    /\ results[1].tzinfo = "UTC+01:00"

\* The number of days the scan of the day stage has moved its needle from the
\* date of the cursor.
DayScanLength == toordinal(needle) - toordinal(date(dt))

\* C13: in a run of the day stage the day-by-day scan moves the date by at
\* most one month's length, 31 days.
C13_DayScanBounded == pc = "day_loop" => DayScanLength <= 31

\* The places of __next__ at which a stage may change the cursor.
StagePcs == {"month_loop", "day_loop", "advance_hour", "advance_minute", "advance_second"}

\* A step of a stage that changes the cursor.
StageChanges == pc \in StagePcs /\ dt' # dt

\* The cursor is emitted only by the return that follows a second stage that
\* left it alone, and a pass moves from one stage to the next one down only
\* when the stage left the cursor alone.
EmitsUnchanged ==
    /\ pc' = "return" => (pc = "advance_second" /\ dt' = dt)
    /\ results' # results => (pc = "return" /\ results' = Append(results, dt))
    /\ (pc = "advance_day" /\ pc' = "advance_hour") => dt' = dt
    /\ (pc = "advance_hour" /\ pc' = "advance_minute") => dt' = dt
    /\ (pc = "advance_minute" /\ pc' = "advance_second") => dt' = dt

\* C14 as stated: the cursor is emitted only at the end of a pass in which no
\* stage changed it; whenever a stage, the month stage included, changes the
\* cursor, the pass is restarted from the month stage.
C14_RestartAsStated ==
    [][EmitsUnchanged /\ (StageChanges => pc' = "advance_month")]_vars

\* C14, amended: whenever the day, hour, minute or second stage changes the
\* cursor, the pass is restarted from the month stage; a change by the month
\* stage does not restart the pass, which goes on to the day stage; the cursor
\* is emitted only at the end of a pass in which none of the day, hour, minute
\* and second stages changed it.
C14_Restart ==
    [][/\ EmitsUnchanged
       /\ StageChanges =>
            pc' = IF pc = "month_loop" THEN "advance_day" ELSE "advance_month"]_vars

\* The first call about to emit the midnight of the 1st of June that the month
\* stage built in this pass from a cursor in January.
C14_Witness ==
    /\ expr = "0 0 1 6 *"
    /\ pc = "return"
    /\ results = <<>>
    /\ before.month = 1
    /\ dt = combine([year |-> 2020, month |-> 6, day |-> 1], start.tzinfo)

\* The cursor t moved k hours forward (the date rolled over past midnight),
\* with its minute and second set to the minimum of their sets.
HourMoved(t, k) ==
    LET d == IF t.hour + k >= 24 THEN AddDay(date(t)).val ELSE date(t)
    IN  [year |-> d.year, month |-> d.month, day |-> d.day,
         hour |-> (t.hour + k) % 24, minute |-> Min(minutes),
         second |-> Min(seconds), microsecond |-> t.microsecond,
         tzinfo |-> t.tzinfo]

\* k is the smallest offset in 1..23 that brings hour h into the hour set.
SmallestHourOffset(h, k) ==
    /\ k \in 1..23
    /\ (h + k) % 24 \in hours
    /\ \A j \in 1..(k - 1) : (h + j) % 24 \notin hours

\* C15: the hour stage leaves the cursor alone and reports no change (the pass
\* goes on to the minute stage) when the hour is in the hour set; otherwise it
\* moves the cursor by the smallest k in 1..23 hours that brings the hour into
\* the set, sets minute and second to the minimum of their sets and reports a
\* change (the pass starts again); the cursor is then strictly later.
C15_HourStage ==
    [][pc = "advance_hour" =>
        IF dt.hour \in hours
        THEN dt' = dt /\ pc' = "advance_minute"
        ELSE /\ \E k \in 1..23 : SmallestHourOffset(dt.hour, k) /\ dt' = HourMoved(dt, k)
             /\ pc' = "advance_month"
             /\ Earlier(dt, dt')]_vars

\* The hour stage has moved 23:59:01 of the 28th to 10:15:00 of the 29th.
C15_Witness ==
    /\ expr = "  15 10\t* *  * "
    /\ pc = "advance_month"
    /\ results = <<>>
    /\ before = Instant(2020, 2, 28, 23, 59, 0, 0, "UTC+01:00")
    /\ dt = Instant(2020, 2, 29, 10, 15, 0, 0, "UTC+01:00")

\* The comma-separated terms with a "#" of the day-of-week field of the text.
HashTerms ==
    LET ts == split(Part(5), ",")
    IN  {ts[k] : k \in {j \in 1..Len(ts) : Contains(ts[j], "#")}}

\* The weekday value of d: the position of a name in SUN..SAT, or the number.
WeekdayValue(d) ==
    IF IndexOf(SYMBOLIC_DAYS, upper(d)) # 0
    THEN IndexOf(SYMBOLIC_DAYS, upper(d)) - 1
    ELSE ToInt(d)

\* The pair a term "d#n" stands for.
PairOf(tok) ==
    NthSpec(WeekdayValue(split1(tok, "#")[1]), ToInt(split1(tok, "#")[2]))

\* n of a term "d#n" is an integer >= 1 written with one or two digits.
OrdinalOk(tok) ==
    /\ isdigit(split1(tok, "#")[2])
    /\ Len(split1(tok, "#")[2]) <= 2
    /\ ToInt(split1(tok, "#")[2]) >= 1

\* C16: a day-of-week term "d#n" is accepted only when n is an integer >= 1 of
\* one or two digits, and then yields exactly the pair (weekday value of d, n);
\* "* * * * 1#0" fails to compile with an error.
C16_Nth ==
    /\ NumFields(expr) \in {5, 6} =>
        \A tok \in HashTerms :
            /\ Compiled => parse(DOW, tok).ok
            /\ parse(DOW, tok).ok =>
                (OrdinalOk(tok) /\ parse(DOW, tok).val = {PairOf(tok)})
            /\ (Compiled /\ Part(5) = tok) => weekdays = {PairOf(tok)}
    /\ expr = "* * * * 1#0" => (~Compiled /\ error = "Bad value: 0" /\ NoSets)

\* A name and a two-digit ordinal with a leading zero, accepted as (0, 5).
C16_Witness ==
    /\ expr = Place(5, "sun#05")
    /\ Compiled
    /\ weekdays = {NthSpec(0, 5)}
    /\ Len(results) > 0

\* The weekday value of a date: Sunday = 0, Monday = 1 .. Saturday = 6.
SundayZero(d) == (weekday(d) + 1) % 7

\* Which occurrence of its weekday in its month a date is: the number of days
\* of the month up to it that fall on the same weekday.
NthOccurrence(d) == Cardinality({k \in 1..d.day : (d.day - k) % 7 = 0})

\* A date matches as the four conditions say.
DayMatches(d) ==
    \/ d.day \in days
    \/ LAST \in days /\ d.day = monthrange(d.year, d.month)
    \/ SundayZero(d) \in weekdays
    \/ NthSpec(SundayZero(d), NthOccurrence(d)) \in weekdays

\* C17: the day stage accepts a date iff its day-of-month is in the day set,
\* or the set holds the last-day sentinel and the date is the last day of its
\* month, or its weekday value (Sunday = 0) is in the weekday set, or the pair
\* (weekday value, occurrence in the month) is in the weekday set: it leaves a
\* matching date alone and scans past exactly the dates that do not match.
C17_DayMatch ==
    [][/\ pc = "advance_day" =>
            /\ match_day(date(dt)) <=> DayMatches(date(dt))
            /\ pc' = IF DayMatches(date(dt)) THEN "advance_hour" ELSE "day_loop"
       /\ pc = "day_loop" =>
            /\ match_day(needle) <=> DayMatches(needle)
            /\ IF DayMatches(needle)
               THEN dt' = combine(needle, dt.tzinfo) /\ pc' = "advance_month"
               ELSE dt' = dt /\ (pc' = "raised" \/ needle' = AddDay(needle).val)]_vars

\* Day-of-month 13 or Friday: two Fridays that are not the 13th, then a 13th
\* that is a Monday.
C17_Witness ==
    /\ expr = "0 12 13 * FRI"
    /\ Len(results) = 3
    /\ results[1].day # 13 /\ SundayZero(date(results[1])) = 5
    /\ results[3].day = 13 /\ SundayZero(date(results[3])) = 1

\* t is a piece of the text e (the empty piece included).
IsPieceOf(t, e) ==
    \E i \in 1..(Len(e) + 1) : \E j \in (i - 1)..Len(e) : SubSeq(e, i, j) = t

\* The message m names, after a colon, a piece of the text e.
CarriesToken(m, e) ==
    \E k \in 1..Len(m) :
        /\ Char(m, k) = ":"
        /\ IsPieceOf(SubSeq(m, k + 2, Len(m)), e)

\* C18: every error is raised by compilation, none by next(), and the message
\* of every compilation error carries the offending token.
C18_CompileErrorsOnly ==
    /\ pc # "raised"
    /\ pc = "failed" => CarriesToken(error, expr)

\* The six sets of a compiled expression c.
SetsOf(c) == <<c.minutes, c.hours, c.days, c.months, c.weekdays, c.seconds>>

\* The six sets are those compilation produces for the expression.
SetsAsCompiled == sets = SetsOf(compile(expr))

\* C19: after any sequence of next() calls the six compiled sets are exactly
\* what compilation produced; no step of next() changes them or the
\* expression.
C19_SetsReadOnly ==
    /\ [](Compiled => SetsAsCompiled)
    /\ [][UNCHANGED <<expr, sets>>]_vars

\* Three calls made on an expression with the sentinel, a pair and a weekday.
C19_Witness ==
    /\ expr = "0 0 L/2 * 3#1,5"
    /\ Len(results) = 3
    /\ pc = "ready"
    /\ days = {LAST}
    /\ weekdays = {NthSpec(3, 1), 5}
    /\ dt = results[3]

\* C20: for every expression that compiles, the day set and the weekday set
\* left by the two rules are not both empty, and the two rules have not both
\* fired: at least one of the sets is as parsed.
C20_NotBothEmpty ==
    Compiled =>
        /\ days # {} \/ weekdays # {}
        /\ days = ParsedDays \/ weekdays = ParsedWeekdays
        /\ ParsedDays # {} /\ ParsedWeekdays # {}

\* The first rule has emptied the day set and the day stage has matched a
\* Monday against the weekday set.
C20_Witness ==
    /\ expr = "* * * * 1"
    /\ days = {}
    /\ weekdays = {1}
    /\ Len(results) > 0
    /\ SundayZero(date(results[1])) = 1

====
